---- MODULE Spec2Model ----
(***************************************************************************)
(* Model of the track-geometry engine, the forensic scorers and the        *)
(* persistence contract of the Wikiloc harvester.                          *)
(*                                                                         *)
(*   src/wikiloc_scraper_engine.py  GeometryEngine, DatabaseManager,       *)
(*                                  WikilocHarvester                       *)
(*   src/mushroom_detector.py       MushroomTrackDetector                  *)
(*                                                                         *)
(* Numbers.  Python floats are modelled by exact rationals <<num, den>>    *)
(* (den > 0).  Distances are integers in metres: 0.1 km is 100 and         *)
(* 0.005 km is 5.  Durations are integers in minutes.                      *)
(*                                                                         *)
(* Points.  A point is <<lat, lon>>.  The point sequences the model draws  *)
(* lie on one meridian (every lon = 0) and lat is counted in metres   *)
(* of arc north of a reference latitude (1 unit = 1/6371000 rad).  On a    *)
(* meridian the haversine formula gives a = sin^2(dlat/2),                 *)
(* c = 2*atan2(sqrt a, sqrt(1-a)) = |dlat|, distance = R*|dlat|, and the   *)
(* initial bearing atan2(0, sin(dlat)) is 0 (north or no move) or 180      *)
(* (south), so both are computed exactly.                                  *)
(*                                                                         *)
(* Strings are sequences of one-character strings.                         *)
(*                                                                         *)
(* A call's outcome is [exc |-> "none", val |-> v] or                      *)
(* [exc |-> <exception class>, val |-> None].                              *)
(***************************************************************************)
EXTENDS Integers, Sequences, FiniteSets, TLC

VARIABLES
    coords,      \* point sequence handed to GeometryEngine / analyze_track_deep
    distResult,  \* outcome of GeometryEngine.haversine_vectorized(coords)
    tortResult,  \* outcome of GeometryEngine.calculate_tortuosity(coords)
    patResult,   \* outcome of GeometryEngine.detect_search_patterns(coords)
    gpxFile,     \* the GPX file handed to MushroomTrackDetector.analyze_gpx
    gpxResult,   \* outcome of analyze_gpx(gpxFile)
    metadata,    \* the metadata dict handed to analyze_track_deep
    deepResult,  \* outcome of WikilocHarvester.analyze_track_deep
    db,          \* the rows of the tracks table
    lastSaved,   \* history: external_id -> the data of its latest save_track
    pc,          \* where run_campaign stands
    driver,      \* BrowserCore.driver: "none" or "session"
    grid,        \* the sectors generate_honeycomb_grid returned
    sector,      \* index in grid of the sector being scanned
    act,         \* index in TARGET_ACTIVITIES of the activity being scanned
    page,        \* listing page being scanned
    cardsLeft,   \* cards of the current listing page not yet processed
    lastEvent,   \* what the last step did, as the log reports it
    workers,     \* harvesters sharing the table: each one's place in a card
    dived        \* history: the external_ids whose detail page was requested

geomVars == <<coords, distResult, tortResult, patResult>>
scoreVars == <<gpxFile, gpxResult, metadata, deepResult>>
dbVars == <<db, lastSaved>>
campaignVars ==
    <<pc, driver, grid, sector, act, page, cardsLeft, lastEvent, dived>>

vars == <<coords, distResult, tortResult, patResult,
          gpxFile, gpxResult, metadata, deepResult,
          db, lastSaved, pc, driver, grid, sector, act, page, cardsLeft,
          lastEvent, workers, dived>>

None == "None"
\* None where a string is expected, and None where a datetime is expected.
NoneText == <<"None">>
NoTime == [month |-> 0, min |-> 0]
NotCalled == [exc |-> "NotCalled", val |-> None]
Called(r) == r.exc # "NotCalled"
Returned(r) == r.exc = "none"

HasKey(d, k) == k \in DOMAIN d

Ret(v) == [exc |-> "none", val |-> v]
Raise(e) == [exc |-> e, val |-> None]

-----------------------------------------------------------------------------
(* Exact rationals standing for Python floats *)

Abs(x) == IF x < 0 THEN -x ELSE x

RECURSIVE GCD(_, _)
GCD(a, b) == IF b = 0 THEN a ELSE GCD(b, a % b)

Frac(n, d) ==
    LET g == GCD(Abs(n), d)
    IN  IF g = 0 THEN <<0, 1>> ELSE <<n \div g, d \div g>>

FInt(n) == <<n, 1>>
FLess(a, b) == a[1] * b[2] < b[1] * a[2]
FLeq(a, b) == a[1] * b[2] <= b[1] * a[2]
FEq(a, b) == a[1] * b[2] = b[1] * a[2]
FAdd(a, b) == Frac(a[1] * b[2] + b[1] * a[2], a[2] * b[2])
FSub(a, b) == Frac(a[1] * b[2] - b[1] * a[2], a[2] * b[2])
FMul(a, b) == Frac(a[1] * b[1], a[2] * b[2])
FMin(a, b) == IF FLess(b, a) THEN b ELSE a
FMax(a, b) == IF FLess(a, b) THEN b ELSE a
\* int(x): truncation toward zero
FTrunc(a) == IF a[1] >= 0 THEN a[1] \div a[2] ELSE -((-a[1]) \div a[2])

RECURSIVE SumSeq(_)
SumSeq(s) == IF s = <<>> THEN 0 ELSE s[1] + SumSeq(Tail(s))

-----------------------------------------------------------------------------
(* Point sequences the model draws *)

\* Bounds of the input domain
MaxExtraPoints == 1
MaxStrideIdx == 3

MinTortPoints == 10
MinPatternPoints == 50
LoopDisplacementM == 100
StopDistanceM == 5
ChaosThreshold == 40
LoopFactor == 2

\* Stride lengths in metres: below the 5 m stop distance, and small and large
\* against the 100 m loop threshold.
StrideTable == <<0, 3, 10, 40, 110>>
Strides == {StrideTable[i] : i \in 1..(MaxStrideIdx + 1)}

\* A walk of n fixes whose every k-th stride goes b metres south (b < 0:
\* north as well) and whose other strides go a metres north.  With k = 2:
\* a = -b is a straight line, a = b a zigzag that returns to its start,
\* b = 0 a walk with a stop every other fix.  With k = 3 the heading changes
\* are a mix of 0 and 180 degrees.
WalkTrack(n, a, b, k) ==
    [i \in 1..n |->
        <<((i - 1) - ((i - 1) \div k)) * a - ((i - 1) \div k) * b, 0>>]

AltTrack(n, a, b) == WalkTrack(n, a, b, 2)

Periods == {2, 3}

TrackLens ==
    {0, 1, 2} \cup ((MinTortPoints - 1)..(MinTortPoints + MaxExtraPoints))
              \cup ((MinPatternPoints - 1)..(MinPatternPoints + MaxExtraPoints))

Tracks ==
    {WalkTrack(n, a, b, k) : n \in TrackLens, a \in Strides,
                             b \in Strides \cup {-s : s \in Strides},
                             k \in Periods}

-----------------------------------------------------------------------------
(* GeometryEngine *)

\* Great-circle distance in metres between two points of one meridian.
haversine(p, q) == Abs(q[1] - p[1])

haversine_vectorized(cs) ==
    IF Len(cs) < 2 THEN <<0>>
    ELSE [i \in 1..(Len(cs) - 1) |-> haversine(cs[i], cs[i + 1])]

\* The body below the length guard (total_length in metres, the returned
\* loop value total_length * 2 in km); arr[0] on an empty array is an
\* IndexError.
tortuosity_of(cs) ==
    LET distances == haversine_vectorized(cs)
        total_length == SumSeq(distances)
    IN  IF Len(cs) = 0 THEN Raise("IndexError")
        ELSE LET displacement == haversine(cs[1], cs[Len(cs)])
             IN  IF displacement < LoopDisplacementM
                 THEN Ret(Frac(total_length * LoopFactor, 1000))
                 ELSE Ret(Frac(total_length, displacement))

\* Mutants of calculate_tortuosity: the length guard dropped; the sibling
\* detector's clamp of the displacement in place of the loop value.
calculate_tortuosity_unguarded(cs) == tortuosity_of(cs)

calculate_tortuosity_clamped(cs) ==
    IF Len(cs) = 0 \/ Len(cs) < MinTortPoints THEN Ret(FInt(0))
    ELSE LET total_length == SumSeq(haversine_vectorized(cs))
             displacement == haversine(cs[1], cs[Len(cs)])
         IN  Ret(Frac(total_length,
                      IF displacement < LoopDisplacementM
                      THEN LoopDisplacementM ELSE displacement))

calculate_tortuosity(cs) ==
    IF Len(cs) = 0 \/ Len(cs) < MinTortPoints THEN Ret(FInt(0))
    ELSE tortuosity_of(cs)

\* Initial bearing in degrees between two points of one meridian:
\* atan2(0, sin(dlat)).
bearing(p, q) == IF q[1] < p[1] THEN 180 ELSE 0

\* (d + 180) % 360 - 180, Python's % taking the sign of the divisor.
normalize_bearing(d) == ((d + 180) % 360) - 180

\* np.std squared: the population variance of a non-empty integer sequence.
np_var(s) ==
    LET n == Len(s)
        sq == [i \in DOMAIN s |-> s[i] * s[i]]
    IN  Frac(n * SumSeq(sq) - SumSeq(s) * SumSeq(s), n * n)

\* A standard deviation is kept by its square, [sq |-> variance].
Std(variance) == [sq |-> variance]
StdGt(s, t) == FLess(FInt(t * t), s.sq)
StdIsZero(s) == s.sq[1] = 0

\* np.diff(bearings), each delta normalised; cs has at least two points.
bearing_diff(cs) ==
    LET bearings == [i \in 1..(Len(cs) - 1) |-> bearing(cs[i], cs[i + 1])]
    IN  [i \in 1..(Len(bearings) - 1) |->
            normalize_bearing(bearings[i + 1] - bearings[i])]

detect_search_patterns(cs) ==
    IF Len(cs) < MinPatternPoints
    THEN Ret([stops |-> 0, entropy |-> 0, is_search |-> FALSE])
    ELSE LET directional_chaos == Std(np_var(bearing_diff(cs)))
             dists == haversine_vectorized(cs)
             slow_segments ==
                 Cardinality({i \in DOMAIN dists : dists[i] < StopDistanceM})
             stop_ratio == Frac(slow_segments, Len(dists))
         IN  Ret([bearing_std |-> directional_chaos,
                  stop_ratio |-> stop_ratio,
                  score |-> [half_of |-> directional_chaos,
                             plus |-> FMul(stop_ratio, FInt(100))]])

-----------------------------------------------------------------------------
(* Strings *)

UpperCase ==
    <<"A", "B", "C", "D", "E", "F", "G", "H", "I", "J", "K", "L", "M",
      "N", "O", "P", "Q", "R", "S", "T", "U", "V", "W", "X", "Y", "Z">>
LowerCase ==
    <<"a", "b", "c", "d", "e", "f", "g", "h", "i", "j", "k", "l", "m",
      "n", "o", "p", "q", "r", "s", "t", "u", "v", "w", "x", "y", "z">>

lower_char(c) ==
    IF \E i \in DOMAIN UpperCase : UpperCase[i] = c
    THEN LowerCase[CHOOSE i \in DOMAIN UpperCase : UpperCase[i] = c]
    ELSE c

\* str.lower()
lower(text) == [i \in DOMAIN text |-> lower_char(text[i])]

\* str.strip()
RECURSIVE lstrip(_)
lstrip(text) ==
    IF text # <<>> /\ text[1] = " " THEN lstrip(Tail(text)) ELSE text
RECURSIVE rstrip(_)
rstrip(text) ==
    IF text # <<>> /\ text[Len(text)] = " "
    THEN rstrip(SubSeq(text, 1, Len(text) - 1)) ELSE text
strip(text) == rstrip(lstrip(text))

\* `sub in text`
Contains(sub, text) ==
    \E i \in 0..(Len(text) - Len(sub)) : SubSeq(text, i + 1, i + Len(sub)) = sub

\* any(k in text for k in words)
AnyIn(words, text) == \E k \in words : Contains(k, text)

\* text.count(c)
count(text, c) == Cardinality({i \in DOMAIN text : text[i] = c})

\* The titles the model draws (a track's name, a card's title).
TitleTable ==
    << <<"S", "e", "t", "a", "s", " ", "n", "a", "d", "a">>,
       <<" ", "R", "u", "t", "a", " ">>,
       <<"P", "i", "c", "o", " ", "M", "o", "n", "c", "a", "y", "o">>,
       <<"n", "a", "d", "a">>,
       <<"b", "o", "l", "e", "t", "u", "s">>,
       <<"a", "a", "a", "a", "a", "a">>,
       <<"m", "i", " ", "t", "r", "a", "c", "k">>,
       <<>>,
       <<"c", "e", "s", "t", "a">>,
       <<"R", "e", "b", "o", "l", "l", "o", "n">>,
       <<"s", "e", "t", "a">>,
       <<"h", "o", "n", "g", "o", "s">>,
       <<"a", "a", "a", "a", "b", "b", "c", "c">> >>

MaxTitleIdx == 7
Titles == {TitleTable[i] : i \in 1..(MaxTitleIdx + 1)}

-----------------------------------------------------------------------------
(* MushroomTrackDetector *)

suspicious_list ==
    { <<"a", "n", "o", "n">>, <<"t", "r", "a", "c", "k">>,
      <<"r", "u", "t", "a">>,
      <<"a", "c", "t", "i", "v", "i", "d", "a", "d">>,
      <<"g", "h", "g", "h">>, <<"a", "s", "d", "f">>, <<"t", "e", "m", "p">> }

detector_keywords ==
    { <<"s", "e", "t", "a">>, <<"b", "o", "l", "e", "t", "u", "s">>,
      <<"h", "o", "n", "g", "o">>, <<"c", "e", "s", "t", "a">>,
      <<"r", "e", "b", "o", "l", "l", "o", "n">> }

nada == <<"n", "a", "d", "a">>

\* log2(k) in millionths of a bit, k = 1..16, composed from the logarithms
\* of the primes so that sums which are equal in exact arithmetic are equal
\* here (log2 3 = 1.584963, log2 5 = 2.321928, log2 7 = 2.807355,
\* log2 11 = 3.459432, log2 13 = 3.700440).
Log2Micro ==
    <<0, 1000000, 1584963, 2000000, 2321928, 2584963, 2807355, 3000000,
      3169926, 3321928, 3459432, 3584963, 3700440, 3807355, 3906891, 4000000>>

\* entropy < 1.5 for the Shannon entropy -sum(p * log2 p) over the character
\* distribution of a non-empty text: with n = len(text) and c the counts,
\* n * entropy = n * log2 n - sum(c * log2 c).
EntropyBelowThreshold(text) ==
    LET n == Len(text)
        chars == {text[i] : i \in DOMAIN text}
        firstAt(c) == CHOOSE i \in DOMAIN text :
                          text[i] = c /\ \A j \in 1..(i - 1) : text[j] # c
        weighted == [i \in DOMAIN text |->
                        IF firstAt(text[i]) = i
                        THEN count(text, text[i]) * Log2Micro[count(text, text[i])]
                        ELSE 0]
    IN  2 * (n * Log2Micro[n] - SumSeq(weighted)) < 3 * n * 1000000

_calculate_name_entropy(text) ==
    IF text = NoneText THEN Raise("AttributeError")
    ELSE LET t == strip(lower(text))
         IN  IF AnyIn(suspicious_list, t) THEN Ret(FInt(1))
             ELSE IF t = <<>> THEN Ret(FInt(0))
             ELSE IF EntropyBelowThreshold(t) \/ Len(t) < 5 THEN Ret(<<4, 5>>)
             ELSE Ret(FInt(0))

_check_seasonality(date_obj) ==
    IF date_obj = NoTime THEN FInt(0)
    ELSE IF date_obj.month \in {9, 10, 11} THEN FInt(1)
    ELSE IF date_obj.month \in {12, 5, 6} THEN <<3, 5>>
    ELSE <<1, 10>>

weights ==
    [tortuosity |-> <<35, 100>>, avg_speed |-> <<25, 100>>,
     seasonality |-> <<15, 100>>, entropy_name |-> <<15, 100>>,
     stops |-> <<10, 100>>]

\* round(x, 2) in hundredths, ties to even.
Round2(f) ==
    LET n == Abs(f[1]) * 100
        q == n \div f[2]
        r == n % f[2]
        up == (2 * r > f[2]) \/ (2 * r = f[2] /\ q % 2 = 1)
        m == IF up THEN q + 1 ELSE q
    IN  IF f[1] < 0 THEN -m ELSE m

\* geopy's geodesic(p, q).km, in metres, for two points of one meridian (the
\* detector's sequences are counted in metres of geodesic arc).
geodesic(p, q) == Abs(q.lat - p.lat)

\* gpx.get_time_bounds().start_time: the time of the first fix that has one.
start_time(points) ==
    IF \E i \in DOMAIN points : points[i].time # NoTime
    THEN points[CHOOSE i \in DOMAIN points :
                    /\ points[i].time # NoTime
                    /\ \A j \in 1..(i - 1) : points[j].time = NoTime].time
    ELSE NoTime

\* The result of the except branch: metrics and component_scores are {}.
error_result(e) ==
    [total_score |-> 0, interpretation |-> <<"Error:", e>>,
     metrics |-> <<>>, component_scores |-> <<>>]

\* total_score = min(100, total_score + bonus * 0.5); 100 when bonus == 100.
final_score_uncapped(weighted, bonus) ==
    IF bonus = 100 THEN FInt(100)
    ELSE FAdd(weighted, FMul(FInt(bonus), <<1, 2>>))

final_score(weighted, bonus) ==
    LET capped == FMin(FInt(100), FAdd(weighted, FMul(FInt(bonus), <<1, 2>>)))
    IN  IF bonus = 100 THEN FInt(100) ELSE capped

\* Mutant of score_speed_of: below the band the score degrades with the
\* same slope as above it.
score_speed_two_sided(avg_speed) ==
    IF FLeq(<<1, 2>>, avg_speed) /\ FLeq(avg_speed, FInt(3)) THEN FInt(100)
    ELSE IF FLess(avg_speed, <<1, 2>>)
    THEN FMax(FInt(0), FSub(FInt(100), FMul(FSub(<<1, 2>>, avg_speed), FInt(40))))
    ELSE FMax(FInt(0), FSub(FInt(100), FMul(FSub(avg_speed, FInt(3)), FInt(40))))

score_speed_of(avg_speed) ==
    IF FLeq(<<1, 2>>, avg_speed) /\ FLeq(avg_speed, FInt(3)) THEN FInt(100)
    ELSE IF FLess(avg_speed, <<1, 2>>) THEN FInt(80)
    ELSE FMax(FInt(0), FSub(FInt(100), FMul(FSub(avg_speed, FInt(3)), FInt(40))))

score_tort_of(tortuosity) ==
    LET s == FMin(FInt(100), FMul(FSub(tortuosity, <<6, 5>>), FInt(25)))
    IN  IF FLess(s, FInt(0)) THEN FInt(0) ELSE s

\* Mutant of interpretation_of: the two middle bands exchanged.
interpretation_of_swapped(total_score) ==
    IF FLess(FInt(85), total_score) THEN <<"SETERO CONFIRMADO">>
    ELSE IF FLess(FInt(65), total_score) THEN <<"Posible recoleccion">>
    ELSE IF FLess(FInt(40), total_score) THEN <<"Busqueda probable">>
    ELSE <<"Senderismo">>

interpretation_of(total_score) ==
    IF FLess(FInt(85), total_score) THEN <<"SETERO CONFIRMADO">>
    ELSE IF FLess(FInt(65), total_score) THEN <<"Busqueda probable">>
    ELSE IF FLess(FInt(40), total_score) THEN <<"Posible recoleccion">>
    ELSE <<"Senderismo">>

\* The sum of the geodesic distances of consecutive points, in metres.
total_dist_of(points) ==
    SumSeq([i \in 1..(Len(points) - 1) |->
               geodesic(points[i], points[i + 1])])

\* total_dist / duration_h if duration_h > 0 else 0: km/h from metres and
\* minutes; the first and the last point carry a time.
avg_speed_of(points) ==
    LET duration_min == points[Len(points)].time.min - points[1].time.min
    IN  IF duration_min > 0
        THEN Frac(3 * total_dist_of(points), 50 * duration_min) ELSE FInt(0)

\* The body of the try block once the file is open and parsed: the value
\* returned, or the exception raised inside the try.
gpx_try_body(f) ==
    LET track_name == IF f.has_track THEN f.name
                      ELSE IF f.gpx_name = NoneText \/ f.gpx_name = <<>>
                           THEN <<"U", "n", "k", "n", "o", "w", "n">>
                           ELSE f.gpx_name
        points == IF f.has_track THEN f.points ELSE <<>>
        track_time == start_time(points)
    IN
    IF Len(points) < 10 THEN Raise("ValueError")
    ELSE
    LET n == Len(points)
        total_dist == total_dist_of(points)
        raw_displacement == geodesic(points[1], points[n])
        displacement == IF raw_displacement < 100 THEN 100 ELSE raw_displacement
        tortuosity == Frac(total_dist, displacement)
    IN
    IF points[n].time = NoTime \/ points[1].time = NoTime THEN Raise("TypeError")
    ELSE
    LET duration_min == points[n].time.min - points[1].time.min
        avg_speed == avg_speed_of(points)
        score_speed == score_speed_of(avg_speed)
        score_tort == score_tort_of(tortuosity)
        is_obfuscated == _calculate_name_entropy(track_name)
    IN
    IF ~Returned(is_obfuscated) THEN is_obfuscated
    ELSE
    LET score_name == FMul(is_obfuscated.val, FInt(100))
        score_season == FMul(_check_seasonality(track_time), FInt(100))
        track_name_lower == lower(track_name)
        bonus0 == IF AnyIn(detector_keywords, track_name_lower) THEN 100 ELSE 0
        bonus == IF Contains(nada, track_name_lower) /\ FLess(FInt(50), score_tort)
                 THEN bonus0 + 50 ELSE bonus0
        weighted ==
            FAdd(FAdd(FMul(score_speed, weights.avg_speed),
                      FMul(score_tort, weights.tortuosity)),
                 FAdd(FMul(score_name, weights.entropy_name),
                      FMul(score_season, weights.seasonality)))
        total_score == final_score(weighted, bonus)
    IN  Ret([filename |-> f.path,
             track_name |-> track_name,
             total_score |-> FTrunc(total_score),
             interpretation |-> interpretation_of(total_score),
             metrics |->
                 [total_distance_km |-> Round2(Frac(total_dist, 1000)),
                  tortuosity_index |-> Round2(tortuosity),
                  avg_speed_kmh |-> Round2(avg_speed),
                  total_duration_hours |-> Round2(Frac(duration_min, 60)),
                  season |-> IF track_time = NoTime THEN 0
                             ELSE track_time.month],
             component_scores |->
                 [speed |-> FTrunc(score_speed),
                  pattern_tortuosity |-> FTrunc(score_tort),
                  name_suspicion |-> FTrunc(score_name),
                  seasonality |-> FTrunc(score_season)]])

\* Mutant of analyze_gpx: the try block without its except branch.
analyze_gpx_no_except(f) ==
    IF ~f.readable THEN Raise("FileNotFoundError")
    ELSE IF ~f.parses THEN Raise("GPXXMLSyntaxException")
    ELSE gpx_try_body(f)

analyze_gpx(f) ==
    LET r == IF ~f.readable THEN Raise("FileNotFoundError")
             ELSE IF ~f.parses THEN Raise("GPXXMLSyntaxException")
             ELSE gpx_try_body(f)
    IN  IF Returned(r) THEN r ELSE Ret(error_result(r.exc))

-----------------------------------------------------------------------------
(* WikilocHarvester: the record of a card and its deep analysis *)

\* A href is [abs, host, path]: abs says it starts with 'http'; path is the
\* sequence of its '/'-separated segments, each the sequence of its
\* '-'-separated tokens.
base_url == "https://www.wikiloc.com"

full_url(href) ==
    [host |-> IF href.abs THEN href.host ELSE base_url, path |-> href.path]

\* hashlib.md5(url).hexdigest(): a digest that identifies the url.
md5(url) == <<"md5", url>>

\* href.split('/')[-1].split('-')[-1]
track_id_of(href) ==
    LET last == href.path[Len(href.path)]
    IN  last[Len(last)]

\* The metadata dict built for a card (dist in tenths of a km).
build_meta(href, title, dist, act_id) ==
    [id |-> md5(full_url(href)),
     external_id |-> track_id_of(href),
     title |-> title,
     total_dist_km |-> dist,
     author |-> "Unknown",
     activity_type |-> act_id]

keywords_generic ==
    { <<"p", "a", "s", "e", "o">>, <<"v", "u", "e", "l", "t", "a">>,
      <<"r", "u", "t", "a">>, <<"c", "a", "m", "i", "n", "o">>,
      <<"s", "e", "n", "d", "e", "r", "i", "s", "m", "o">>,
      <<"m", "a", "n~", "a", "n", "a">> }

keywords_explicit ==
    { <<"s", "e", "t", "a">>, <<"b", "o", "l", "e", "t", "u", "s">>,
      <<"c", "e", "s", "t", "a">>, <<"r", "e", "b", "o", "l", "l", "o", "n">> }

\* min(100, score)
cap_probability(score) == IF score > 100 THEN 100 ELSE score

\* Mutant of chaos_bonus: the 20 points follow the stop ratio.
chaos_bonus_on_stops(patterns) ==
    IF FLess(<<3, 10>>, patterns.stop_ratio) THEN 20 ELSE 0

\* if patterns['bearing_std'] > 40: score += 20
chaos_bonus(patterns) ==
    IF StdGt(patterns.bearing_std, ChaosThreshold) THEN 20 ELSE 0

\* if patterns['stop_ratio'] > 0.3: score += 10
stop_bonus(patterns) ==
    IF FLess(<<3, 10>>, patterns.stop_ratio) THEN 10 ELSE 0

\* analyze_track_deep once the detail page has been fetched: cs is the list
\* extract_coords_from_detail_page returned.
analyze_track_deep(cs, md) ==
    IF cs = <<>> THEN Ret(md)
    ELSE
    LET tort == calculate_tortuosity(cs)
        pat == detect_search_patterns(cs)
    IN
    IF ~Returned(tort) THEN tort
    ELSE IF ~Returned(pat) THEN pat
    ELSE
    LET tortuosity == tort.val
        patterns == pat.val
        s1 == IF FLess(<<5, 2>>, tortuosity) THEN 30
              ELSE IF FLess(<<3, 2>>, tortuosity) THEN 15 ELSE 0
    IN
    IF ~HasKey(patterns, "bearing_std") \/ ~HasKey(patterns, "stop_ratio")
    THEN Raise("KeyError")
    ELSE
    LET s2 == s1 + chaos_bonus(patterns)
        s3 == s2 + stop_bonus(patterns)
        title_lower == lower(md.title)
        s4 == IF AnyIn(keywords_generic, title_lower) /\ FLess(<<9, 5>>, tortuosity)
              THEN s3 + 30 ELSE s3
        score == IF AnyIn(keywords_explicit, title_lower) THEN s4 + 100 ELSE s4
    IN  Ret([has_zigzag |-> StdGt(patterns.bearing_std, ChaosThreshold),
             tortuosity_index |-> Round2(tortuosity),
             stop_count |-> FTrunc(FMul(patterns.stop_ratio, FInt(100))),
             entropy_score |-> patterns.score,
             mushroom_probability |-> cap_probability(score),
             raw_coords_json |-> SubSeq(cs, 1, IF Len(cs) < 500 THEN Len(cs) ELSE 500)]
            @@ md)

-----------------------------------------------------------------------------
(* The engine and the scorers at rest *)

GeomIdle ==
    /\ distResult = NotCalled
    /\ tortResult = NotCalled
    /\ patResult = NotCalled

\* The detector and the harvester at rest.
NoFile ==
    [path |-> "", readable |-> FALSE, parses |-> FALSE, has_track |-> FALSE,
     name |-> NoneText, gpx_name |-> NoneText, points |-> <<>>]
NoMeta == [title |-> NoneText]

ScoreIdle ==
    /\ gpxFile = NoFile
    /\ gpxResult = NotCalled
    /\ metadata = NoMeta
    /\ deepResult = NotCalled

-----------------------------------------------------------------------------
(* DatabaseManager: the tracks table, a set of rows with primary key id *)

track_exists(rows, track_id) == \E r \in rows : r.external_id = track_id

\* INSERT OR REPLACE INTO tracks: the row with the same primary key goes.
save_track(rows, data) == {r \in rows : r.id # data.id} \cup {data}

-----------------------------------------------------------------------------
(* BrowserCore *)

PageOutcome(exc, val, drv) == [exc |-> exc, val |-> val, driver |-> drv]

\* The driver a start() that raises leaves behind: none when the browser
\* could not be created, the new session when set_page_load_timeout on it
\* raised.
FailedStartDrivers == {"none", "session"}

\* get_page_source(url) with the driver drv: everything the browser and the
\* network can make of it.  Without a driver start() runs first, outside
\* the try, and may raise; driver.get(url) yields the page ("html") or
\* raises, which returns "" after quit() and a start() that may fail
\* silently and leave no driver.
get_page_source(drv) ==
    {PageOutcome("none", "html", "session"),
     PageOutcome("none", "", "session"),
     PageOutcome("none", "", "none")}
    \cup (IF drv = "none"
          THEN {PageOutcome("WebDriverException", None, d) :
                   d \in FailedStartDrivers}
          ELSE {})

-----------------------------------------------------------------------------
(* WikilocHarvester: the campaign *)

TARGET_ACTIVITIES == <<"1", "46", "24", "42", "9", "3">>
max_pages == 2
cell_size_km == 3
MinDistTenths == 20
MaxDistTenths == 250
SaveThreshold == 20

\* The grid as the sequence of its index pairs <<x, y>>, x the outer loop;
\* the point of <<x, y>> is (lat + y * lat_step * 0.75,
\* lon + (x + (y % 2) * 0.5) * lon_step).
generate_honeycomb_grid(radius_km) ==
    LET num_steps == (radius_km \div cell_size_km) * 2
        side == 2 * num_steps
        all == [k \in 1..(side * side) |->
                   <<((k - 1) \div side) - num_steps,
                     ((k - 1) % side) - num_steps>>]
        inside(p) ==
            (p[2] * cell_size_km) * (p[2] * cell_size_km)
              + (p[1] * cell_size_km) * (p[1] * cell_size_km)
            <= radius_km * radius_km
    IN  SelectSeq(all, inside)

\* Mutant of should_save: the threshold compared with >= instead of >.
should_save_inclusive(final_data) ==
    (IF HasKey(final_data, "mushroom_probability")
     THEN final_data.mushroom_probability ELSE 0) >= SaveThreshold

\* Mutant of should_save: a record without a score counts as a full score.
should_save_unscored(final_data) ==
    (IF HasKey(final_data, "mushroom_probability")
     THEN final_data.mushroom_probability ELSE 100) > SaveThreshold

\* final_data.get('mushroom_probability', 0) > 20
should_save(final_data) ==
    (IF HasKey(final_data, "mushroom_probability")
     THEN final_data.mushroom_probability ELSE 0) > SaveThreshold

\* Bounds of the campaign's environment
MaxCards == 2
MaxDetailIdx == 3

\* A card of a listing page: whether it holds a title link, the link's href
\* and text, and the numbers the distance pattern finds in the card's text
\* (in tenths of a km; none: no distance shown).
HrefTable ==
    << [abs |-> FALSE, host |-> "",
        path |-> << <<"trails">>, <<"hiking">>, <<"ruta", "101">> >>],
       [abs |-> TRUE, host |-> "https://es.wikiloc.com",
        path |-> << <<"rutas", "senderismo">>, <<"paseo", "101">> >>],
       [abs |-> FALSE, host |-> "",
        path |-> << <<"trails">>, <<"hiking">>, <<"pico", "moncayo", "202">> >>],
       [abs |-> FALSE, host |-> "",
        path |-> << <<"trails">>, <<"hiking">>, <<"boletus", "303">> >>],
       [abs |-> FALSE, host |-> "",
        path |-> << <<"trails">>, <<"hiking">>, <<"seta", "404">> >>],
       [abs |-> FALSE, host |-> "",
        path |-> << <<"trails">>, <<"hiking">>, <<"cesta", "505">> >>] >>

CardTable ==
    << [has_title |-> TRUE, href |-> HrefTable[1], text |-> TitleTable[2],
        km |-> <<250>>],
       [has_title |-> TRUE, href |-> HrefTable[2], text |-> TitleTable[1],
        km |-> <<50>>],
       [has_title |-> FALSE, href |-> HrefTable[1], text |-> <<>>,
        km |-> <<>>],
       [has_title |-> TRUE, href |-> HrefTable[3], text |-> TitleTable[3],
        km |-> <<20>>],
       [has_title |-> TRUE, href |-> HrefTable[4], text |-> TitleTable[5],
        km |-> <<19>>],
       [has_title |-> TRUE, href |-> HrefTable[5], text |-> TitleTable[11],
        km |-> <<251>>],
       [has_title |-> TRUE, href |-> HrefTable[6], text |-> TitleTable[9],
        km |-> <<>>] >>

Cards == {CardTable[i] : i \in DOMAIN CardTable}

\* What extract_coords_from_detail_page finds on a detail page: nothing, a
\* 2 km closed loop, a line with heading changes, a short list, a straight
\* line, a walk with stops.
DetailTable ==
    << <<>>,
       WalkTrack(51, 40, 40, 2),
       WalkTrack(51, 40, 10, 3),
       WalkTrack(9, 40, 40, 2),
       WalkTrack(51, 40, -40, 2),
       WalkTrack(51, 3, 3, 3) >>

DetailCoords == {DetailTable[i] : i \in 1..(MaxDetailIdx + 1)}

Radii == {1, 3}

Event(kind, track_id) == [kind |-> kind, track_id |-> track_id]
NoEvent == Event("none", "")

HarvestIdle ==
    /\ db = {}
    /\ lastSaved = <<>>
    /\ pc = "idle"
    /\ driver = "none"
    /\ grid = <<>>
    /\ sector = 0
    /\ act = 0
    /\ page = 0
    /\ cardsLeft = 0
    /\ lastEvent = NoEvent
    /\ dived = {}

\* The harvesters that share one tracks table, and the place of one of them
\* in the per-card try: its card, the record it analysed, whether it wrote.
Harvesters == {1, 2}

Worker(at, card, data, wrote) ==
    [pc |-> at, card |-> card, data |-> data, wrote |-> wrote]

NoWorkers == <<>>

WorkersIdle == workers = NoWorkers

\* The finally clause of run_campaign: browser.quit().
EndCampaign(kind) ==
    /\ pc' = "done"
    /\ driver' = "none"
    /\ cardsLeft' = 0
    /\ lastEvent' = Event(kind, "")
    /\ UNCHANGED <<grid, sector, act, page>>

\* Mutant of ToNextActivity: the next activity goes on at the page number
\* the last one had reached.
ToNextActivity_same_page(drv, ev) ==
    IF act < Len(TARGET_ACTIVITIES)
    THEN /\ act' = act + 1
         /\ pc' = "scan"
         /\ driver' = drv
         /\ lastEvent' = ev
         /\ UNCHANGED <<grid, sector, page>>
    ELSE IF sector < Len(grid)
    THEN /\ sector' = sector + 1
         /\ act' = 1
         /\ pc' = "scan"
         /\ driver' = drv
         /\ lastEvent' = ev
         /\ UNCHANGED <<grid, page>>
    ELSE /\ pc' = "done"
         /\ driver' = "none"
         /\ lastEvent' = ev
         /\ UNCHANGED <<grid, sector, act, page>>

\* The loops of run_campaign and scrape_grid_sector move on: to the next
\* sector after the last activity, to the end after the last sector.
ToNextActivity(drv, ev) ==
    IF act < Len(TARGET_ACTIVITIES)
    THEN /\ act' = act + 1
         /\ page' = 1
         /\ pc' = "scan"
         /\ driver' = drv
         /\ lastEvent' = ev
         /\ UNCHANGED <<grid, sector>>
    ELSE IF sector < Len(grid)
    THEN /\ sector' = sector + 1
         /\ act' = 1
         /\ page' = 1
         /\ pc' = "scan"
         /\ driver' = drv
         /\ lastEvent' = ev
         /\ UNCHANGED grid
    ELSE /\ pc' = "done"
         /\ driver' = "none"
         /\ lastEvent' = ev
         /\ UNCHANGED <<grid, sector, act, page>>

ToNextPage(drv, ev) ==
    IF page < max_pages
    THEN /\ page' = page + 1
         /\ pc' = "scan"
         /\ driver' = drv
         /\ lastEvent' = ev
         /\ UNCHANGED <<grid, sector, act>>
    ELSE ToNextActivity(drv, ev)

\* run_campaign up to its first listing page: browser.start() outside the
\* try, then the grid.
RunCampaign ==
    /\ pc = "idle"
    /\ \E radius_km \in Radii, startOk \in BOOLEAN :
          IF ~startOk
          THEN /\ pc' = "crashed"
               /\ driver' \in FailedStartDrivers
               /\ lastEvent' = Event("start_failed", "")
               /\ UNCHANGED <<grid, sector, act, page, cardsLeft>>
          ELSE LET g == generate_honeycomb_grid(radius_km)
               IN  /\ grid' = g
                   /\ cardsLeft' = 0
                   /\ IF g = <<>>
                      THEN /\ pc' = "done"
                           /\ driver' = "none"
                           /\ lastEvent' = Event("finished", "")
                           /\ UNCHANGED <<sector, act, page>>
                      ELSE /\ pc' = "scan"
                           /\ driver' = "session"
                           /\ sector' = 1
                           /\ act' = 1
                           /\ page' = 1
                           /\ lastEvent' = Event("started", "")
    /\ UNCHANGED <<workers, geomVars, scoreVars, dbVars, dived>>

\* One listing page of scrape_grid_sector: the page is fetched outside the
\* per-card try; no cards ends the activity.
FetchListing ==
    /\ pc = "scan"
    /\ \E r \in get_page_source(driver), k \in 0..MaxCards :
          IF r.exc # "none"
          THEN EndCampaign("campaign_error")
          ELSE IF r.val = "" \/ k = 0
          THEN /\ cardsLeft' = 0
               /\ ToNextActivity(r.driver, Event("empty_listing", ""))
          ELSE /\ cardsLeft' = k
               /\ pc' = "cards"
               /\ driver' = r.driver
               /\ lastEvent' = Event("listing", "")
               /\ UNCHANGED <<grid, sector, act, page>>
    /\ UNCHANGED <<workers, geomVars, scoreVars, dbVars, dived>>

\* What became of a card: the log's word for it, the driver left behind,
\* the table, and the data saved (if any).
card_outcome(kind, track_id, drv, rows, data) ==
    [kind |-> kind, track_id |-> track_id, driver |-> drv, db |-> rows,
     data |-> data]

\* The end of the per-card try: the analysed record is saved when its
\* mushroom_probability passes the threshold; an exception of the analysis
\* or of the database (dbOk false: sqlite3 raises in save_track) is caught
\* by the per-card except and logged.
store_result(track_id, drv, rows, final, dbOk) ==
    IF ~Returned(final)
    THEN card_outcome("error", track_id, drv, rows, NoMeta)
    ELSE IF should_save(final.val)
    THEN IF dbOk
         THEN card_outcome("saved", track_id, drv,
                           save_track(rows, final.val), final.val)
         ELSE card_outcome("error", track_id, drv, rows, NoMeta)
    ELSE IF HasKey(final.val, "mushroom_probability")
    THEN card_outcome("low_score", track_id, drv, rows, NoMeta)
    ELSE card_outcome("no_geometry", track_id, drv, rows, NoMeta)

\* Mutant of analyze_card: no except clause around the card, so that an
\* exception of the page fetch, the analysis or the database leaves the
\* cards loop.
analyze_card_uncaught(track_id, rows, src, analysed, bare, dbOk) ==
    IF src.exc # "none"
    THEN card_outcome("propagated", track_id, src.driver, rows, NoMeta)
    ELSE LET o == store_result(track_id, src.driver, rows,
                      IF src.val = "" THEN bare ELSE analysed, dbOk)
         IN  IF o.kind = "error" THEN [o EXCEPT !.kind = "propagated"] ELSE o

\* analyze_track_deep as the harvester runs it: src is the outcome of
\* fetching the detail page, analysed the outcome of the analysis of the
\* coordinates that page holds, bare its outcome when the page yields no
\* coordinates.
analyze_card(track_id, rows, src, analysed, bare, dbOk) ==
    IF src.exc # "none"
    THEN card_outcome("error", track_id, src.driver, rows, NoMeta)
    ELSE store_result(track_id, src.driver, rows,
             IF src.val = "" THEN bare ELSE analysed, dbOk)

\* Mutant of skip_reason: the track_exists check left out.
skip_reason_unchecked(card, rows) ==
    IF ~card.has_title THEN "no_title"
    ELSE IF card.km = <<>> THEN "filtered"
    ELSE IF card.km[1] < MinDistTenths \/ card.km[1] > MaxDistTenths
    THEN "filtered"
    ELSE ""

\* Mutant of skip_reason: the preliminary distance filter left out.
skip_reason_unfiltered(card, rows) ==
    IF ~card.has_title THEN "no_title"
    ELSE IF track_exists(rows, track_id_of(card.href)) THEN "exists"
    ELSE ""

\* Why the per-card try ends before the detail page is fetched: no title
\* link, a track already in the table, a distance outside 2.0 .. 25.0 km
\* (0.0 when the card shows none); "" when it goes on.
skip_reason(card, rows) ==
    IF ~card.has_title THEN "no_title"
    ELSE IF track_exists(rows, track_id_of(card.href)) THEN "exists"
    ELSE IF card.km = <<>> THEN "filtered"
    ELSE IF card.km[1] < MinDistTenths \/ card.km[1] > MaxDistTenths
    THEN "filtered"
    ELSE ""

\* The ways a card ends before its detail page is requested.
SkipKinds == {"no_title", "exists", "filtered"}

\* The card is done: the table and the log are updated, the loops move on.
\* An exception that leaves the per-card try is caught by run_campaign.
CardDone(o) ==
    IF o.kind = "propagated"
    THEN /\ EndCampaign("campaign_error")
         /\ dived' = dived \cup {o.track_id}
         /\ UNCHANGED dbVars
    ELSE
    /\ db' = o.db
    /\ dived' = IF o.kind \in SkipKinds THEN dived
                ELSE dived \cup {o.track_id}
    /\ lastSaved' = IF o.kind = "saved"
                    THEN (o.track_id :> o.data) @@ lastSaved
                    ELSE lastSaved
    /\ cardsLeft' = cardsLeft - 1
    /\ IF cardsLeft > 1
       THEN /\ driver' = o.driver
            /\ lastEvent' = Event(o.kind, o.track_id)
            /\ UNCHANGED <<pc, grid, sector, act, page>>
       ELSE ToNextPage(o.driver, Event(o.kind, o.track_id))

\* analyze_track_deep of card c of CardTable under activity a, when its
\* detail page holds the coordinates DetailTable[d] (d = 1: none).
DeepAnalysis ==
    [c \in DOMAIN CardTable |->
        [d \in 1..(MaxDetailIdx + 1) |->
            [a \in DOMAIN TARGET_ACTIVITIES |->
                IF CardTable[c].has_title /\ CardTable[c].km # <<>>
                THEN analyze_track_deep(DetailTable[d],
                         build_meta(CardTable[c].href, strip(CardTable[c].text),
                                    CardTable[c].km[1], TARGET_ACTIVITIES[a]))
                ELSE Ret(NoMeta)]]]

\* The card's detail page is fetched, analysed and stored.
DeepDive(track_id, analysed, bare) ==
    \E src \in get_page_source(driver), dbOk \in BOOLEAN :
        CardDone(analyze_card(track_id, db, src, analysed, bare, dbOk))

\* One card of the listing page: the body of the per-card try.
ProcessCard ==
    /\ pc = "cards"
    /\ cardsLeft > 0
    /\ \E c \in DOMAIN CardTable :
          LET card == CardTable[c]
          IN  IF skip_reason(card, db) # ""
              THEN CardDone(card_outcome(skip_reason(card, db),
                       IF card.has_title THEN track_id_of(card.href) ELSE "",
                       driver, db, NoMeta))
              ELSE \E d \in 1..(MaxDetailIdx + 1) :
                      DeepDive(track_id_of(card.href),
                               DeepAnalysis[c][d][act], DeepAnalysis[c][1][act])
    /\ UNCHANGED <<workers, geomVars, scoreVars>>

\* The user interrupts the campaign: except KeyboardInterrupt, then finally.
Interrupt ==
    /\ pc \in {"scan", "cards"}
    /\ EndCampaign("interrupted")
    /\ UNCHANGED <<workers, geomVars, scoreVars, dbVars, dived>>

InitCampaign ==
    /\ coords = <<>>
    /\ GeomIdle
    /\ ScoreIdle
    /\ HarvestIdle
    /\ WorkersIdle

Init == InitCampaign

Next == RunCampaign \/ FetchListing \/ ProcessCard \/ Interrupt

Spec == Init /\ [][Next]_vars

-----------------------------------------------------------------------------
(* SpecDB: any sequence of save_track calls with records the harvester builds *)

\* The records scrape_grid_sector hands to save_track: a card's metadata
\* analysed with the coordinates of its detail page, the score above the
\* threshold.
HarvestRecords ==
    LET analysed ==
          { analyze_track_deep(cs,
                build_meta(c.href, strip(c.text), c.km[1], a)) :
              c \in {x \in Cards : skip_reason(x, {}) = ""},
              cs \in DetailCoords,
              a \in {TARGET_ACTIVITIES[i] : i \in DOMAIN TARGET_ACTIVITIES} }
    IN  {r.val : r \in {x \in analysed : Returned(x) /\ should_save(x.val)}}

CallSaveTrack ==
    /\ \E data \in HarvestRecords :
          /\ db' = save_track(db, data)
          /\ lastSaved' = (data.external_id :> data) @@ lastSaved
    /\ UNCHANGED <<workers, geomVars, scoreVars, campaignVars>>

NextDB == CallSaveTrack

SpecDB == InitCampaign /\ [][NextDB]_vars

-----------------------------------------------------------------------------
(* SpecConc: two harvesters on one tracks table, each in the per-card try *)
(* of a card with the same external_id. The table is read by track_exists *)
(* and written by save_track, each in a connection of its own; the page   *)
(* fetch and the analysis lie between the two.                            *)

InitConc ==
    /\ coords = <<>>
    /\ GeomIdle
    /\ ScoreIdle
    /\ HarvestIdle
    /\ workers \in [Harvesters ->
                      {Worker("check", c, NoMeta, FALSE) :
                          c \in {x \in Cards : skip_reason(x, {}) = ""}}]
    /\ \A v \in Harvesters : \A w \in Harvesters :
          track_id_of(workers[v].card.href) = track_id_of(workers[w].card.href)

\* if self.db.track_exists(track_id): continue
WorkerCheck(w) ==
    /\ workers[w].pc = "check"
    /\ workers' = [workers EXCEPT ![w].pc =
                      IF track_exists(db, track_id_of(workers[w].card.href))
                      THEN "done" ELSE "dive"]
    /\ UNCHANGED <<geomVars, scoreVars, dbVars, campaignVars>>

\* The detail page is fetched and analysed; the harvester goes on to
\* save_track when the record passes the threshold.
WorkerDeepDive(w) ==
    /\ workers[w].pc = "dive"
    /\ \E cs \in DetailCoords, a \in DOMAIN TARGET_ACTIVITIES,
          src \in get_page_source("session") :
          LET card == workers[w].card
              md == build_meta(card.href, strip(card.text), card.km[1],
                               TARGET_ACTIVITIES[a])
              final == analyze_track_deep(IF src.val = "" THEN <<>> ELSE cs,
                                          md)
          IN  IF src.exc = "none" /\ Returned(final) /\ should_save(final.val)
              THEN workers' = [workers EXCEPT ![w].pc = "save",
                                              ![w].data = final.val]
              ELSE workers' = [workers EXCEPT ![w].pc = "done"]
    /\ UNCHANGED <<geomVars, scoreVars, dbVars, campaignVars>>

\* self.db.save_track(final_data): one INSERT OR REPLACE in a connection of
\* its own, or an sqlite3 error (dbOk false) the per-card except catches.
WorkerSave(w) ==
    /\ workers[w].pc = "save"
    /\ \E dbOk \in BOOLEAN :
          /\ db' = IF dbOk THEN save_track(db, workers[w].data) ELSE db
          /\ workers' = [workers EXCEPT ![w].pc = "done", ![w].wrote = dbOk]
    /\ UNCHANGED <<geomVars, scoreVars, campaignVars, lastSaved>>

NextConc ==
    \E w \in Harvesters : WorkerCheck(w) \/ WorkerDeepDive(w) \/ WorkerSave(w)

SpecConc == InitConc /\ [][NextConc]_vars

-----------------------------------------------------------------------------
(* SpecGeom: the GeometryEngine functions applied to a drawn point sequence *)

InitGeom ==
    /\ coords \in Tracks
    /\ GeomIdle
    /\ ScoreIdle
    /\ HarvestIdle
    /\ WorkersIdle

CallHaversine ==
    /\ ~Called(distResult)
    /\ distResult' = Ret(haversine_vectorized(coords))
    /\ UNCHANGED <<coords, tortResult, patResult, scoreVars, dbVars, campaignVars,
                 workers>>

CallTortuosity ==
    /\ ~Called(tortResult)
    /\ tortResult' = calculate_tortuosity(coords)
    /\ UNCHANGED <<coords, distResult, patResult, scoreVars, dbVars, campaignVars,
                 workers>>

CallPatterns ==
    /\ ~Called(patResult)
    /\ patResult' = detect_search_patterns(coords)
    /\ UNCHANGED <<coords, distResult, tortResult, scoreVars, dbVars, campaignVars,
                 workers>>

NextGeom == CallHaversine \/ CallTortuosity \/ CallPatterns

SpecGeom == InitGeom /\ [][NextGeom]_vars

-----------------------------------------------------------------------------
(* SpecScore: the two scorers applied to drawn inputs *)

\* Months of the first fix (0: the fixes carry no time) and durations from
\* the first to the last fix in minutes.
Months == {0, 1, 6, 10}
Durations == {-60, 0, 3, 30, 60}

GpxPoints(n, a, b, month, d) ==
    [i \in 1..n |->
        [lat |-> AltTrack(n, a, b)[i][1], lon |-> 0, ele |-> None,
         time |-> IF month = 0 THEN NoTime
                  ELSE [month |-> month,
                        min |-> IF n > 1 THEN ((i - 1) * d) \div (n - 1) ELSE 0]]]

GpxPointSeqs ==
    UNION { {GpxPoints(n, a, b, m, d) :
                n \in TrackLens, b \in {a, -a, 10},
                m \in Months, d \in Durations} : a \in Strides }

GpxFiles ==
    { [NoFile EXCEPT !.path = "missing.gpx"],
      [NoFile EXCEPT !.path = "broken.gpx", !.readable = TRUE] }
    \cup { [NoFile EXCEPT !.path = "empty.gpx", !.readable = TRUE,
                          !.parses = TRUE, !.gpx_name = g] :
             g \in {NoneText, <<>>, TitleTable[1]} }
    \cup { [path |-> "track.gpx", readable |-> TRUE, parses |-> TRUE,
            has_track |-> TRUE, name |-> t, gpx_name |-> NoneText,
            points |-> ps] :
             t \in Titles \cup {NoneText}, ps \in GpxPointSeqs }

SampleHref ==
    [abs |-> FALSE, host |-> "",
     path |-> << <<"trails">>, <<"hiking">>, <<"ruta", "101">> >>]

DeepMetas == {build_meta(SampleHref, t, 50, "1") : t \in Titles}

InitScore ==
    /\ GeomIdle
    /\ HarvestIdle
    /\ WorkersIdle
    /\ gpxResult = NotCalled
    /\ deepResult = NotCalled
    /\ \/ /\ gpxFile \in GpxFiles
          /\ coords = <<>>
          /\ metadata = NoMeta
       \/ /\ gpxFile = NoFile
          /\ coords \in Tracks
          /\ metadata \in DeepMetas

CallAnalyzeGpx ==
    /\ gpxFile # NoFile
    /\ ~Called(gpxResult)
    /\ gpxResult' = analyze_gpx(gpxFile)
    /\ UNCHANGED <<gpxFile, metadata, deepResult, geomVars, dbVars, campaignVars,
                 workers>>

CallAnalyzeTrackDeep ==
    /\ metadata # NoMeta
    /\ ~Called(deepResult)
    /\ deepResult' = analyze_track_deep(coords, metadata)
    /\ UNCHANGED <<gpxFile, gpxResult, metadata, geomVars, dbVars, campaignVars,
                 workers>>

NextScore == CallAnalyzeGpx \/ CallAnalyzeTrackDeep

SpecScore == InitScore /\ [][NextScore]_vars

-----------------------------------------------------------------------------
(* Claims about GeometryEngine, checked under SpecGeom *)

\* Path length and start-to-end displacement of the drawn sequence, in metres.
PathLengthM == SumSeq(haversine_vectorized(coords))
DisplacementM ==
    IF Len(coords) = 0 THEN 0 ELSE haversine(coords[1], coords[Len(coords)])

\* C5 (as claimed): for fewer than 50 points detect_search_patterns returns,
\* without raising, a result that reports bearing_std = 0 and stop_ratio = 0.
C5_ShortPatternsReportZeroFields ==
    (Called(patResult) /\ Len(coords) < 50) =>
        /\ Returned(patResult)
        /\ HasKey(patResult.val, "bearing_std")
        /\ HasKey(patResult.val, "stop_ratio")
        /\ StdIsZero(patResult.val.bearing_std)
        /\ patResult.val.stop_ratio[1] = 0

\* C7 (as claimed): for at least 10 points and a start-to-end displacement
\* greater than 0, calculate_tortuosity returns a value >= 1.0.
C7_TortuosityAtLeastOne ==
    (Called(tortResult) /\ Len(coords) >= 10 /\ DisplacementM > 0) =>
        /\ Returned(tortResult)
        /\ FLeq(FInt(1), tortResult.val)

\* C8: for at least 10 points calculate_tortuosity returns exactly 2 x L
\* (L the path length in km) when the displacement is below 0.1 km, and
\* exactly L / displacement otherwise.
C8_LoopHeuristicExact ==
    (Called(tortResult) /\ Len(coords) >= 10) =>
        /\ Returned(tortResult)
        /\ DisplacementM < 100 =>
               FEq(tortResult.val, <<2 * PathLengthM, 1000>>)
        /\ DisplacementM >= 100 =>
               FEq(tortResult.val, <<PathLengthM, DisplacementM>>)

\* C8: the case happens: the closed loop of 2.0 km path length scores 4.0.
C8_Witness ==
    /\ Called(tortResult)
    /\ Len(coords) > 50
    /\ DisplacementM = 0
    /\ PathLengthM = 2000
    /\ Returned(tortResult)
    /\ tortResult.val = <<4, 1>>

\* C9: for fewer than 10 points (the empty sequence and a single point
\* included) calculate_tortuosity returns 0.0 and does not raise.
C9_ShortTrackTortuosityZero ==
    (Called(tortResult) /\ Len(coords) < 10) =>
        /\ Returned(tortResult)
        /\ tortResult.val = <<0, 1>>

\* C9: the case happens: a 9-point track of positive length scores 0.0.
C9_Witness ==
    /\ Called(tortResult)
    /\ Len(coords) = 9
    /\ PathLengthM > 0
    /\ Returned(tortResult)
    /\ tortResult.val = <<0, 1>>

-----------------------------------------------------------------------------
(* Claims about the scorers, checked under SpecScore *)

GpxCalled == Called(gpxResult)
DeepCalled == Called(deepResult)

GpxPointsOf(f) == IF f.has_track THEN f.points ELSE <<>>
GpxTimed(f) ==
    /\ GpxPointsOf(f) # <<>>
    /\ GpxPointsOf(f)[1].time # NoTime
    /\ GpxPointsOf(f)[Len(GpxPointsOf(f))].time # NoTime

ExplicitTitle(t) == t # NoneText /\ AnyIn(keywords_explicit, lower(t))

\* C2 (as claimed, on inputs for which a score is computed): a title that
\* contains seta, boletus, cesta or rebollon yields total_score = 100 from
\* analyze_gpx and mushroom_probability = 100 from analyze_track_deep,
\* whatever the geometry.
C2_KeywordForcesHundred ==
    /\ (/\ GpxCalled
        /\ gpxFile.readable /\ gpxFile.parses /\ gpxFile.has_track
        /\ Len(gpxFile.points) >= 10
        /\ GpxTimed(gpxFile)
        /\ ExplicitTitle(gpxFile.name))
       => (Returned(gpxResult) /\ gpxResult.val.total_score = 100)
    /\ (/\ DeepCalled
        /\ Len(coords) >= 50
        /\ ExplicitTitle(metadata.title))
       => (/\ Returned(deepResult)
           /\ HasKey(deepResult.val, "mushroom_probability")
           /\ deepResult.val.mushroom_probability = 100)

\* C3: the final score is bounded, 0 <= score <= 100: total_score of every
\* analyze_gpx result (the error result included) and mushroom_probability
\* of every record analyze_track_deep sets it on.
C3_ScoreBounded ==
    /\ GpxCalled =>
           /\ Returned(gpxResult)
           /\ gpxResult.val.total_score >= 0
           /\ gpxResult.val.total_score <= 100
    /\ (DeepCalled /\ Returned(deepResult)
            /\ HasKey(deepResult.val, "mushroom_probability")) =>
           /\ deepResult.val.mushroom_probability >= 0
           /\ deepResult.val.mushroom_probability <= 100

\* C3: the case happens: the 'nada' bonus is added to a weighted sum and
\* the total stays at the cap of 100.
C3_Witness ==
    /\ GpxCalled
    /\ gpxFile.name = nada
    /\ Returned(gpxResult)
    /\ gpxResult.val.total_score = 100
    /\ gpxResult.val.component_scores.pattern_tortuosity > 50

\* C6 (as claimed): a non-empty coordinate list of fewer than 50 points
\* never makes analyze_track_deep raise and yields a record with a
\* mushroom_probability; analyze_gpx on a track of fewer than 10 points
\* yields a classification, not a failure result.
C6_ShortTrackNeverAborts ==
    /\ (DeepCalled /\ Len(coords) > 0 /\ Len(coords) < 50) =>
           /\ Returned(deepResult)
           /\ HasKey(deepResult.val, "mushroom_probability")
    /\ (/\ GpxCalled
        /\ gpxFile.readable /\ gpxFile.parses /\ gpxFile.has_track
        /\ gpxFile.name # NoneText
        /\ Len(gpxFile.points) < 10
        /\ GpxTimed(gpxFile)) =>
           /\ Returned(gpxResult)
           /\ gpxResult.val.interpretation[1] # "Error:"

\* The inputs on which reading, parsing or scoring fails.
GpxFails(f) ==
    \/ ~f.readable
    \/ ~f.parses
    \/ ~f.has_track
    \/ Len(f.points) < 10
    \/ ~GpxTimed(f)
    \/ f.name = NoneText

IsErrorResult(r) ==
    /\ r.total_score = 0
    /\ r.interpretation[1] = "Error:"
    /\ DOMAIN r.metrics = {}
    /\ DOMAIN r.component_scores = {}

\* C10: analyze_gpx never propagates an exception: whenever reading,
\* parsing or scoring fails it returns total_score = 0, an interpretation
\* with the prefix 'Error:' and empty metrics and component_scores (and on
\* every other input a classification).
C10_AnalyzeGpxNeverRaises ==
    GpxCalled =>
        /\ Returned(gpxResult)
        /\ GpxFails(gpxFile) => IsErrorResult(gpxResult.val)
        /\ ~GpxFails(gpxFile) => gpxResult.val.interpretation[1] # "Error:"

\* C10: the case happens: the scoring step fails on a track without a name
\* and the failure comes back as the error result.
C10_Witness ==
    /\ GpxCalled
    /\ gpxFile.has_track
    /\ Len(gpxFile.points) >= 10
    /\ GpxTimed(gpxFile)
    /\ gpxFile.name = NoneText
    /\ Returned(gpxResult)
    /\ IsErrorResult(gpxResult.val)
    /\ gpxResult.val.interpretation = <<"Error:", "AttributeError">>

-----------------------------------------------------------------------------
(* Claims about the tracks table and the campaign *)

\* C1 (as claimed): after any sequence of save_track calls with records the
\* harvester builds, the tracks table holds at most one row per external_id,
\* and that row carries the values of the latest save_track call for that
\* external_id.
C1_OneRowPerExternalId ==
    /\ \A r1 \in db : \A r2 \in db :
           r1.external_id = r2.external_id => r1 = r2
    /\ \A r \in db : lastSaved[r.external_id] = r

\* C1: the case happens: the same external_id has been saved from two
\* different URLs.
C1_Witness ==
    \E r1 \in db : \E r2 \in db :
        r1.external_id = r2.external_id /\ r1.id # r2.id

\* C4: every row a campaign has written to the tracks table carries a
\* mushroom_probability strictly greater than 20; a record whose analysis
\* produced no score is not in the table.
C4_OnlyAboveThresholdPersisted ==
    \A r \in db :
        /\ HasKey(r, "mushroom_probability")
        /\ r.mushroom_probability > 20

\* C4: the case happens: the campaign has persisted a row and has just
\* turned down a scored record at or below the threshold.
C4_Witness ==
    /\ db # {}
    /\ lastEvent.kind = "low_score"

-----------------------------------------------------------------------------
(* Claims about the campaign's loops *)

\* The position the loops of scrape_grid_sector and run_campaign reach after
\* the current listing page.
PositionAfterPage ==
    IF page < max_pages THEN <<sector, act, page + 1>>
    ELSE IF act < Len(TARGET_ACTIVITIES) THEN <<sector, act + 1, 1>>
    ELSE <<sector + 1, 1, 1>>

LastPosition ==
    page = max_pages /\ act = Len(TARGET_ACTIVITIES) /\ sector = Len(grid)

\* C11: whatever happens to a card (bad markup, a page that does not load,
\* an exception of the analysis or of the database), the batch goes on:
\* unless the user interrupts, the step that processes a card leads to the
\* next card of the same listing page, or after the last card to the next
\* page, activity or sector, and ends the campaign only after the last one.
C11_CardFailureNeverAborts ==
    [][(pc = "cards" /\ lastEvent'.kind # "interrupted") =>
          IF cardsLeft > 1
          THEN /\ pc' = "cards"
               /\ cardsLeft' = cardsLeft - 1
               /\ <<sector', act', page'>> = <<sector, act, page>>
          ELSE IF LastPosition
          THEN pc' = "done"
          ELSE /\ pc' = "scan"
               /\ <<sector', act', page'>> = PositionAfterPage]_vars

\* C11: the case happens: a card has just failed with an exception and the
\* next card of the same listing page is about to be processed.
C11_Witness ==
    /\ pc = "cards"
    /\ cardsLeft > 0
    /\ lastEvent.kind = "error"

-----------------------------------------------------------------------------
(* Claims about the interpretation, checked under SpecScore *)

GpxScored ==
    /\ GpxCalled
    /\ Returned(gpxResult)
    /\ gpxResult.val.interpretation[1] # "Error:"

\* The tier of an interpretation: ordinary < possible < probable < confirmed.
Tier(interpretation) ==
    IF interpretation = <<"SETERO CONFIRMADO">> THEN 3
    ELSE IF interpretation = <<"Busqueda probable">> THEN 2
    ELSE IF interpretation = <<"Posible recoleccion">> THEN 1
    ELSE 0

\* The tier the thresholds 85, 65 and 40 give a score.
TierOfScore(score) ==
    IF score > 85 THEN 3 ELSE IF score > 65 THEN 2
    ELSE IF score > 40 THEN 1 ELSE 0

\* C12 (as claimed): the interpretation of every non-error result of
\* analyze_gpx is the one the thresholds give its reported total_score:
\* confirmed iff > 85, probable iff in (65, 85], possible iff in (40, 65],
\* ordinary iff <= 40.
C12_InterpretationFromReportedScore ==
    GpxScored =>
        Tier(gpxResult.val.interpretation)
            = TierOfScore(gpxResult.val.total_score)

\* The reported total_score and the tier of every non-error result
\* analyze_gpx gives on the drawn files.
GpxOutcomes ==
    LET results == {analyze_gpx(f) : f \in GpxFiles}
        scored == {r \in results : r.val.interpretation[1] # "Error:"}
    IN  {<<r.val.total_score, Tier(r.val.interpretation)>> : r \in scored}

\* C13: the interpretation is monotonic in the reported score: of any two
\* non-error results of analyze_gpx, the one with the strictly higher
\* total_score has no lower tier.
C13_InterpretationMonotonic ==
    GpxScored =>
        \A other \in GpxOutcomes :
            /\ other[1] < gpxResult.val.total_score =>
                   other[2] <= Tier(gpxResult.val.interpretation)
            /\ other[1] > gpxResult.val.total_score =>
                   other[2] >= Tier(gpxResult.val.interpretation)

\* C13: the case happens: a result of a higher tier than another result
\* with a strictly lower score.
C13_Witness ==
    /\ GpxScored
    /\ \E other \in GpxOutcomes :
           /\ other[1] < gpxResult.val.total_score
           /\ other[2] < Tier(gpxResult.val.interpretation)

ConcDone ==
    /\ workers # NoWorkers
    /\ \A w \in Harvesters : workers[w].pc = "done"

\* C14: two harvesters on the same table process a card with the same
\* external_id: whatever the interleaving of their track_exists checks and
\* save_track writes, once both are done and one has written, the table
\* holds exactly one row for that external_id, and that row is in full the
\* record one of the two wrote.
C14_ConcurrentSameKeyOneRow ==
    (ConcDone /\ \E w \in Harvesters : workers[w].wrote) =>
        LET rows == {r \in db : r.external_id =
                                track_id_of(workers[1].card.href)}
        IN  /\ Cardinality(rows) = 1
            /\ \A r \in rows :
                  \E w \in Harvesters :
                      workers[w].wrote /\ r = workers[w].data

\* C14: the case happens: both harvesters passed track_exists before either
\* wrote, and both wrote.
C14_Witness ==
    /\ ConcDone
    /\ \A w \in Harvesters : workers[w].wrote

\* C15: in a sequential campaign save_track runs at most once per
\* external_id: a card is written only when no row of the table carries its
\* external_id, and a write removes no row, so a later card with that
\* external_id is skipped and writes nothing.
C15_SaveAtMostOncePerExternalId ==
    [][(pc = "cards" /\ lastEvent'.kind = "saved") =>
          /\ ~track_exists(db, lastEvent'.track_id)
          /\ track_exists(db', lastEvent'.track_id)
          /\ db \subseteq db']_vars

\* C15: the case happens: a card whose external_id is already in the table
\* has just been skipped by the track_exists check.
C15_Witness ==
    /\ lastEvent.kind = "exists"
    /\ track_exists(db, lastEvent.track_id)

\* C16: in detect_search_patterns every normalised bearing delta lies in
\* (-180, 180]: -180 never occurs, for every pair of consecutive bearings.
C16_DeltaInHalfOpenInterval ==
    (Called(patResult) /\ Len(coords) >= MinPatternPoints) =>
        \A i \in DOMAIN bearing_diff(coords) :
            /\ bearing_diff(coords)[i] > -180
            /\ bearing_diff(coords)[i] <= 180

\* The average speed of the scored track of the file, and its side of the
\* band 0.5-3.0 km/h.
GpxSpeed == avg_speed_of(gpxFile.points)
InBand(v) == FLeq(<<1, 2>>, v) /\ FLeq(v, FInt(3))
BelowBand(v) == FLess(v, <<1, 2>>)
AboveBand(v) == FLess(FInt(3), v)

\* The average speed and the speed score of every drawn track that
\* analyze_gpx scores.
SpeedOutcomes ==
    LET scored == {ps \in GpxPointSeqs : Len(ps) >= 10 /\ ps[1].time # NoTime}
    IN  {<<avg_speed_of(ps), score_speed_of(avg_speed_of(ps))>> : ps \in scored}

NoUsableDuration(f) ==
    \/ ~GpxTimed(f)
    \/ f.points[Len(f.points)].time.min <= f.points[1].time.min

\* C18: analyze_gpx tolerates missing temporal data: for a track of at
\* least 10 points without a usable duration it returns a non-error
\* classification whose speed component is 0, and whose seasonality
\* component is 0 when the track carries no date.
C18_MissingTimeTolerated ==
    (/\ GpxCalled
     /\ gpxFile.readable /\ gpxFile.parses /\ gpxFile.has_track
     /\ gpxFile.name # NoneText
     /\ Len(gpxFile.points) >= 10
     /\ NoUsableDuration(gpxFile)) =>
        /\ Returned(gpxResult)
        /\ gpxResult.val.interpretation[1] # "Error:"
        /\ gpxResult.val.component_scores.speed = 0
        /\ start_time(gpxFile.points) = NoTime =>
               gpxResult.val.component_scores.seasonality = 0

\* A repeated-character pattern: one character, two or more times.
RepeatedChar(t) == Len(t) >= 2 /\ \A i \in DOMAIN t : t[i] = t[1]

\* C19: the name suspicion is a value in [0, 1] (reported scaled to
\* 0..100), and it is maximal if and only if the lower-cased, trimmed title
\* equals a denylist entry or is a repeated-character pattern; a denylist
\* word inside a longer title does not make it maximal.
C19_MaximalSuspicionIffExactMatch ==
    GpxScored =>
        LET t == strip(lower(gpxFile.name))
            suspicion == gpxResult.val.component_scores.name_suspicion
        IN  /\ suspicion \in 0..100
            /\ suspicion = 100 <=> (t \in suspicious_list \/ RepeatedChar(t))

\* analyze_track_deep returned a record with a score.
DeepScored ==
    /\ DeepCalled
    /\ Returned(deepResult)
    /\ HasKey(deepResult.val, "mushroom_probability")

\* The points of the score that come from the tortuosity and the title.
OtherPoints(tortuosity, title) ==
    (IF FLess(<<5, 2>>, tortuosity) THEN 30
     ELSE IF FLess(<<3, 2>>, tortuosity) THEN 15 ELSE 0)
    + (IF AnyIn(keywords_generic, lower(title)) /\ FLess(<<9, 5>>, tortuosity)
       THEN 30 ELSE 0)
    + (IF AnyIn(keywords_explicit, lower(title)) THEN 100 ELSE 0)

\* C20: in analyze_track_deep the chaos and stop bonuses are fixed and
\* threshold-driven: the score holds 20 points iff bearing_std > 40 and 10
\* points iff stop_ratio > 0.3, and the stored has_zigzag flag is true iff
\* bearing_std > 40.
C20_FixedThresholdBonuses ==
    DeepScored =>
        LET patterns == detect_search_patterns(coords).val
            chaos == FLess(FInt(40 * 40), patterns.bearing_std.sq)
            stops == FLess(<<3, 10>>, patterns.stop_ratio)
            points == OtherPoints(calculate_tortuosity(coords).val,
                                  metadata.title)
                      + (IF chaos THEN 20 ELSE 0) + (IF stops THEN 10 ELSE 0)
        IN  /\ deepResult.val.has_zigzag = chaos
            /\ deepResult.val.mushroom_probability =
                   IF points > 100 THEN 100 ELSE points

\* C20: the case happens: a scored record with the chaos bonus and without
\* the stop bonus, below the cap.
C20_Witness ==
    /\ DeepScored
    /\ deepResult.val.has_zigzag
    /\ deepResult.val.stop_count <= 30
    /\ deepResult.val.mushroom_probability < 100

\* The (lat, lon) list of the points of a GPX track, as the engine takes it.
PointsAsCoords(points) ==
    [i \in DOMAIN points |-> <<points[i].lat, points[i].lon>>]

\* C21: the two tortuosity computations agree: for a scored GPX track (at
\* least 10 points) the tortuosity_index analyze_gpx reports equals the
\* value calculate_tortuosity returns on the same points, rounded alike,
\* also for near-closed loops with displacement < 0.1 km.
C21_TortuosityVariantsAgree ==
    GpxScored =>
        gpxResult.val.metrics.tortuosity_index =
            Round2(calculate_tortuosity(PointsAsCoords(gpxFile.points)).val)

\* C22 (as claimed): in a sequential campaign the detail page of a track is
\* requested at most once per external_id, whatever the first analysis
\* gave.
C22_DetailPageAtMostOnce ==
    [][(pc = "cards" /\ lastEvent'.kind \notin SkipKinds
                     /\ lastEvent'.kind # "interrupted") =>
          lastEvent'.track_id \notin dived]_vars

\* C22 (amended): the detail page of a card is requested only while the
\* table holds no row with its external_id: once a track has been saved it
\* is never fetched or analysed again.
C22_NoDetailPageOnceSaved ==
    [][(pc = "cards" /\ lastEvent'.kind \notin SkipKinds
                     /\ lastEvent'.kind # "interrupted") =>
          ~track_exists(db, lastEvent'.track_id)]_vars

\* C22: the case happens: in a later grid sector a card is skipped whose
\* detail page was requested before and whose row is in the table.
C22_Witness ==
    /\ lastEvent.kind = "exists"
    /\ lastEvent.track_id \in dived
    /\ track_exists(db, lastEvent.track_id)
    /\ sector > 1

\* C23: once a row for an external_id is in the tracks table, no later step
\* of the harvester changes, replaces or deletes it, and no other row with
\* that external_id is written: stored scores are never overwritten.
C23_StoredRowsNeverChange ==
    [][\A r \in db :
          /\ r \in db'
          /\ \A q \in db' : q.external_id = r.external_id => q = r]_vars

\* C23: the case happens: a stored track is met again under a later
\* activity code, and skipped.
C23_Witness ==
    /\ db # {}
    /\ lastEvent.kind = "exists"
    /\ act > 1

\* run_campaign has started the browser and built its grid.
GridBuilt == pc \in {"scan", "cards", "done"} /\ lastEvent.kind # "none"

\* C24: generate_honeycomb_grid covers the zone: for every radius_km >= 1
\* the grid run_campaign builds is non-empty, holds the centre point (grid
\* index (0, 0)) and only points of grid-index distance <= radius_km, so
\* that the campaign scans at least one sector.
C24_GridCoversZone ==
    GridBuilt =>
        /\ grid # <<>>
        /\ \E i \in DOMAIN grid : grid[i] = <<0, 0>>
        /\ \E radius_km \in Radii :
              \A i \in DOMAIN grid :
                  (grid[i][1] * cell_size_km) * (grid[i][1] * cell_size_km)
                    + (grid[i][2] * cell_size_km) * (grid[i][2] * cell_size_km)
                  <= radius_km * radius_km
        /\ sector >= 1

\* The fields analyze_track_deep adds to a record it analyses.
AnalysisFields ==
    {"has_zigzag", "tortuosity_index", "stop_count", "entropy_score",
     "mushroom_probability", "raw_coords_json"}

\* C25: when the detail page yields no coordinates analyze_track_deep
\* returns the metadata record unchanged, with none of the analysis fields,
\* and the record does not pass the test that guards save_track: nothing is
\* written for that track.
C25_NoGeometryNothingStored ==
    (DeepCalled /\ coords = <<>>) =>
        /\ Returned(deepResult)
        /\ deepResult.val = metadata
        /\ DOMAIN deepResult.val \cap AnalysisFields = {}
        /\ ~should_save(deepResult.val)

\* C25: the case happens: analyze_track_deep has run on a card whose detail
\* page held no coordinates.
C25_Witness ==
    /\ DeepCalled
    /\ coords = <<>>
    /\ metadata # NoMeta

\* C26: get_page_source never propagates an exception, a failure to start
\* or restart the browser included: a listing-page load leaves the driver a
\* session or None and never ends the campaign with an error.
C26_PageLoadNeverAborts ==
    [][pc = "scan" =>
          /\ lastEvent'.kind # "campaign_error"
          /\ lastEvent'.kind # "interrupted" => pc' \in {"scan", "cards", "done"}
          /\ driver' \in {"session", "none"}]_vars

\* run_campaign has returned or has been left by an exception.
Terminated == pc \in {"done", "crashed"}

\* C27: whenever run_campaign terminates, by completion, by interrupt or by
\* any exception, one raised while the browser is started included, the
\* finally clause has run BrowserCore.quit and the driver is None.
C27_BrowserReleasedAtEnd ==
    Terminated =>
        /\ pc = "done"
        /\ driver = "none"

ListedDistance(card) == IF card.km = <<>> THEN 0 ELSE card.km[1]

\* C29: a track whose listed distance is below 2.0 km or above 25.0 km, or
\* whose card shows no distance, is never fetched, analysed or persisted,
\* whatever its title; every persisted row has 2.0 <= total_dist_km <= 25.0.
C29_OutOfRangeNeverAnalysed ==
    /\ \A card \in Cards :
          (/\ card.has_title
           /\ \/ ListedDistance(card) < 20
              \/ ListedDistance(card) > 250) =>
              /\ track_id_of(card.href) \notin dived
              /\ ~track_exists(db, track_id_of(card.href))
    /\ \A r \in db : r.total_dist_km >= 20 /\ r.total_dist_km <= 250

\* C29: the case happens: a card with an explicit keyword in its title and
\* a distance out of range has just been filtered out, and rows at both
\* ends of the range are stored.
C29_Witness ==
    /\ lastEvent.kind = "filtered"
    /\ \E r \in db : r.total_dist_km = 20
    /\ \E r \in db : r.total_dist_km = 250

\* The campaign is inside scrape_grid_sector, before and after the step.
Scanning == pc \in {"scan", "cards"} /\ pc' \in {"scan", "cards"}

\* C30: a listing page without cards ends the pages of its activity for the
\* sector, and the next activity code (of the same sector, or the first of
\* the next sector) is scanned from its page 1; the pages of one activity
\* are requested in increasing order and never beyond max_pages.
C30_EmptyPageEndsActivityOnly ==
    [][/\ (pc = "scan" /\ lastEvent'.kind = "empty_listing") =>
            IF act < Len(TARGET_ACTIVITIES)
            THEN pc' = "scan" /\ <<sector', act', page'>> = <<sector, act + 1, 1>>
            ELSE IF sector < Len(grid)
            THEN pc' = "scan" /\ <<sector', act', page'>> = <<sector + 1, 1, 1>>
            ELSE pc' = "done"
       /\ Scanning =>
            /\ page' \in 1..max_pages
            /\ IF <<sector', act'>> = <<sector, act>>
               THEN page' \in {page, page + 1}
               ELSE page' = 1]_vars

\* C30: the case happens: after an empty listing page of one activity the
\* next activity code is about to be scanned from page 1.
C30_Witness ==
    /\ pc = "scan"
    /\ lastEvent.kind = "empty_listing"
    /\ act > 1
    /\ page = 1
    /\ dived # {}

====
